---------------------------- MODULE Spec2Model ----------------------------
(***************************************************************************)
(* A model of the faucet-image application's server side:                  *)
(*   - src/src/app/api/analyze/route.ts   (catalog loader, context         *)
(*     assembler, model invocation, response normalizer),                  *)
(*   - src/src/app/api/catalog-image/[filename]/route.ts (image serving).  *)
(*                                                                         *)
(* JavaScript values are tagged records [t |-> tag, v |-> payload]; file   *)
(* names are strings whose spelling (the UTF-16 code units that extname,   *)
(* toLowerCase and sort look at) is given by the table Spelling.           *)
(***************************************************************************)
EXTENDS Integers, Sequences, FiniteSets, TLC

(***************************************************************************)
(* Bounds of the model.                                                    *)
(***************************************************************************)
\* Number of entries the catalog directory holds at most.
MaxFiles == 2
\* Number of turns of a history sequence at most.
MaxHistory == 2
\* Number of elements of a `matches` array at most.
MaxMatches == 2
\* Number of characters of a filename given to the image-serving endpoint.
MaxNameLen == 5
\* The turns the user submits in the chat page.
MaxTurns == 1

(***************************************************************************)
(* JavaScript values.                                                      *)
(***************************************************************************)
Undefined == [t |-> "undefined"]
Null == [t |-> "null"]
Str(s) == [t |-> "str", v |-> s]
Num(n) == [t |-> "num", v |-> n]
Arr(s) == [t |-> "arr", v |-> s]
Obj(f) == [t |-> "obj", keys |-> DOMAIN f, v |-> f]
EmptyObj == Obj([k \in {} |-> Null])

\* ToBoolean: what `!x`, `x || y` and `if (x)` look at.
Truthy(x) ==
  CASE x.t = "undefined" -> FALSE
    [] x.t = "null" -> FALSE
    [] x.t = "str" -> x.v # ""
    [] x.t = "num" -> x.v # 0
    [] OTHER -> TRUE

\* a || b
OrElse(a, b) == IF Truthy(a) THEN a ELSE b

\* x[key] for a value x that is neither null nor undefined (those throw):
\* an own property of an object, `length` of a string or an array,
\* undefined otherwise.
Get(x, key) ==
  CASE x.t = "obj" -> IF key \in x.keys THEN x.v[key] ELSE Undefined
    [] x.t = "arr" /\ key = "length" -> Num(Len(x.v))
    [] x.t = "str" /\ key = "length" -> Num(IF x.v = "" THEN 0 ELSE 1)
    [] OTHER -> Undefined

\* Reading a property of null or undefined throws a TypeError.
ThrowsOnGet(x) == x.t \in {"null", "undefined"}

\* JSON.parse of a text: the text either is no JSON (parsing throws) or
\* denotes one JSON value.
InvalidJson == [valid |-> FALSE]
JsonText(value) == [valid |-> TRUE, value |-> value]
JsonParseThrows(text) == ~text.valid
JsonParse(text) == text.value

\* JSON.stringify(x) inside a text.
JsonStringify(x) == [t |-> "json", v |-> x]

(***************************************************************************)
(* File names: spelling, code units, extname, toLowerCase, sort.           *)
(***************************************************************************)
Spelling(name) ==
  CASE name = "a.png" -> <<"a", ".", "p", "n", "g">>
    [] name = "B.JPG" -> <<"B", ".", "J", "P", "G">>
    [] name = "c.jpeg" -> <<"c", ".", "j", "p", "e", "g">>
    [] name = "d.txt" -> <<"d", ".", "t", "x", "t">>
    [] name = ".png" -> <<".", "p", "n", "g">>
    [] OTHER -> <<"x">>

\* The names a catalog directory entry can have in the model.
FileNames == {"a.png", "B.JPG", "c.jpeg", "d.txt", ".png"}

\* UTF-16 code unit of a character.
CodeUnit(c) ==
  CASE c = "." -> 46
    [] c = "B" -> 66 [] c = "G" -> 71 [] c = "J" -> 74 [] c = "P" -> 80
    [] c = "a" -> 97 [] c = "b" -> 98 [] c = "c" -> 99 [] c = "d" -> 100
    [] c = "e" -> 101 [] c = "g" -> 103 [] c = "j" -> 106 [] c = "n" -> 110
    [] c = "p" -> 112 [] c = "t" -> 116 [] c = "x" -> 120
    [] OTHER -> 0

\* String.prototype.toLowerCase on one character.
LowerChar(c) ==
  CASE c = "B" -> "b" [] c = "G" -> "g" [] c = "J" -> "j" [] c = "P" -> "p"
    [] OTHER -> c

ToLowerCase(s) == [i \in 1..Len(s) |-> LowerChar(s[i])]

\* Index of the last "." of s, 0 when there is none.
LastDot(s) ==
  LET dots == {i \in 1..Len(s) : s[i] = "."}
  IN IF dots = {} THEN 0 ELSE CHOOSE i \in dots : \A j \in dots : j <= i

\* path.extname of a name without separators: from the last "." to the end,
\* and empty when there is no "." or the only "." starts the name.
ExtName(s) ==
  LET d == LastDot(s)
  IN IF d <= 1 THEN <<>> ELSE SubSeq(s, d, Len(s))

SUPPORTED_IMAGE_EXTENSIONS ==
  {<<".", "p", "n", "g">>, <<".", "j", "p", "g">>, <<".", "j", "p", "e", "g">>}

\* Comparison of two strings by code units (the default of Array.sort).
RECURSIVE SeqLess(_, _)
SeqLess(s, u) ==
  IF u = <<>> THEN FALSE
  ELSE IF s = <<>> THEN TRUE
  ELSE IF CodeUnit(Head(s)) # CodeUnit(Head(u))
    THEN CodeUnit(Head(s)) < CodeUnit(Head(u))
  ELSE SeqLess(Tail(s), Tail(u))

NameLess(a, b) == SeqLess(Spelling(a), Spelling(b))

\* fs.readdirSync(dir).sort(): the names of a set in ascending order.
RECURSIVE SortNames(_)
SortNames(names) ==
  IF names = {} THEN <<>>
  ELSE LET m == CHOOSE x \in names : \A y \in names \ {x} : NameLess(x, y)
       IN <<m>> \o SortNames(names \ {m})


(***************************************************************************)
(* Catalog storage: the image directory public/catalog-images and the     *)
(* metadata file public/image_metadata.json.                               *)
(***************************************************************************)
\* What a directory entry is: a regular file, a directory, or a symbolic
\* link whose target is gone (fs.statSync throws on it).  The directory maps
\* every name to its kind, "none" for a name it does not hold.
EntryKinds == {"file", "dir", "dangling"}
Listing(entries) == {n \in DOMAIN entries : entries[n] # "none"}

\* The metadata of one catalog entry as stored in the metadata file.
FullEntry == Obj([Title |-> Str("T"), Brand |-> Str("B"), VarDim_Color |-> Str("C"),
                  VarDim_ColorCode |-> Str("#1"), Sku |-> Str("s")])
PartialEntry == Obj([Title |-> Str("T"), Brand |-> Str("")])
NoMetaFile == [exists |-> FALSE]
MetaFile(text) == [exists |-> TRUE, text |-> text]

\* The bytes of the file with a given name, and their base64 encoding.
Bytes(name) == <<"bytes", name>>
Base64(bytes) == <<"base64", bytes>>

VARIABLES
  apiKey,               \* process.env.GOOGLE_API_KEY: "" when not set
  disk,                 \* catalog storage: [dir, entries, meta]
  catalogContextCache,  \* Null or Arr(parts)
  imageMetadataCache,   \* Null or Obj(filename -> entry)
  req,                  \* the analyze requests being handled, by slot
  io,                   \* the storage operations of the last step
  loads,                \* what the loader calls of the last step returned
  hist,                 \* what the loader calls before the last step did
  img,                  \* the last request to the image-serving endpoint
  gate,                 \* the login gate: secrets, the client's cookie, last exchange
  chat                  \* the chat page: its React state and pending work

(***************************************************************************)
(* Catalog loader.                                                         *)
(***************************************************************************)
\* Object.entries(x) for the values a metadata file holds in the model
\* (objects and numbers); null throws.
ObjectKeys(x) == IF x.t = "obj" THEN x.keys ELSE {}

\* route.ts 95-100: the four fields kept of one entry.
ExtractEntry(entry) ==
  Obj([Title |-> OrElse(Get(entry, "Title"), Str("")),
       Brand |-> OrElse(Get(entry, "Brand"), Str("")),
       VarDim_Color |-> OrElse(Get(entry, "VarDim_Color"), Str("")),
       VarDim_ColorCode |-> OrElse(Get(entry, "VarDim_ColorCode"), Str(""))])

\* route.ts 88-108: the body of the try block. [threw, value].
ReadMetadataFile(text) ==
  IF JsonParseThrows(text) THEN [threw |-> TRUE]
  ELSE LET fullMetadata == JsonParse(text)
       IN IF ThrowsOnGet(fullMetadata) THEN [threw |-> TRUE]
          ELSE IF \E k \in ObjectKeys(fullMetadata) : ThrowsOnGet(fullMetadata.v[k])
            THEN [threw |-> TRUE]
          ELSE [threw |-> FALSE,
                value |-> Obj([k \in ObjectKeys(fullMetadata) |->
                                 ExtractEntry(fullMetadata.v[k])])]

\* route.ts 81-108: loadImageMetadata() past its cache check.
LoadMetadataFromStorage(cache, d) ==
  IF ~d.meta.exists
    THEN [value |-> EmptyObj, cache |-> cache, io |-> {"meta.exists"}]
  ELSE LET r == ReadMetadataFile(d.meta.text)
       IN IF r.threw
            THEN [value |-> EmptyObj, cache |-> cache, io |-> {"meta.exists", "meta.read"}]
            ELSE [value |-> r.value, cache |-> r.value, io |-> {"meta.exists", "meta.read"}]

\* Mutant: loadImageMetadata without `if (imageMetadataCache) return ...`.
loadImageMetadata_NoCacheCheck(cache, d) == LoadMetadataFromStorage(cache, d)

\* loadImageMetadata() called with the cache `cache` on the storage `d`:
\* the value returned, the cache afterwards and the storage operations done.
loadImageMetadata(cache, d) ==
  IF cache # Null
    THEN [value |-> cache, cache |-> cache, io |-> {}]
    ELSE LoadMetadataFromStorage(cache, d)

\* formatMetadata(metadata)
formatMetadata(metadata) ==
  IF ~Truthy(metadata) \/ ObjectKeys(metadata) = {}
    THEN Str("No additional metadata provided.")
    ELSE JsonStringify(metadata)

\* The parts of the payload given to the model.
TextPart(template, args) == [kind |-> "text", template |-> template, args |-> args]
InlineData(mimeType, data) == [kind |-> "inlineData", mimeType |-> mimeType, data |-> data]

\* Mutant: the extension compared without toLowerCase().
SupportedName_CaseSensitive(filename) ==
  ExtName(Spelling(filename)) \in SUPPORTED_IMAGE_EXTENSIONS

\* route.ts 136-139: whether the loop keeps a name.
SupportedName(filename) ==
  ToLowerCase(ExtName(Spelling(filename))) \in SUPPORTED_IMAGE_EXTENSIONS

\* route.ts 149
MimeOf(filename) ==
  IF ToLowerCase(ExtName(Spelling(filename))) = <<".", "p", "n", "g">>
    THEN "image/png" ELSE "image/jpeg"

\* route.ts 135-164: the parts the loop pushes for the sorted names `files`.
RECURSIVE CatalogParts(_, _, _)
CatalogParts(files, entries, metadata) ==
  IF files = <<>> THEN <<>>
  ELSE LET filename == Head(files)
           rest == CatalogParts(Tail(files), entries, metadata)
       IN IF ~SupportedName(filename) \/ entries[filename] # "file"
            THEN rest
            ELSE << TextPart("Catalog Image: $1\nMetadata: $2",
                             <<Str(filename), formatMetadata(Get(metadata, filename))>>),
                    InlineData(MimeOf(filename), Base64(Bytes(filename))) >> \o rest

\* route.ts 123-168: buildCatalogContext() past its cache check.
LoadCatalogFromStorage(cache, metaCache, d) ==
  IF ~d.dir
    THEN [threw |-> FALSE, value |-> <<>>, cache |-> cache, metaCache |-> metaCache,
          io |-> {"dir.exists"}, metaCalled |-> FALSE]
  ELSE LET m == loadImageMetadata(metaCache, d)
           files == SortNames(Listing(d.entries))
           ops == m.io \cup {"dir.exists", "dir.read"}
       IN IF \E f \in Listing(d.entries) : SupportedName(f) /\ d.entries[f] = "dangling"
            THEN [threw |-> TRUE, value |-> <<>>, cache |-> cache, metaCache |-> m.cache,
                  io |-> ops, metaCalled |-> TRUE, metaValue |-> m.value]
            ELSE LET parts == CatalogParts(files, d.entries, m.value)
                 IN [threw |-> FALSE, value |-> parts, cache |-> Arr(parts),
                     metaCache |-> m.cache, io |-> ops, metaCalled |-> TRUE,
                     metaValue |-> m.value]

\* Mutant: buildCatalogContext without `if (catalogContextCache) return ...`.
buildCatalogContext_NoCacheCheck(cache, metaCache, d) ==
  LoadCatalogFromStorage(cache, metaCache, d)

\* buildCatalogContext() called with the two caches on the storage `d`:
\* whether it threw, the sequence returned, both caches afterwards and the
\* storage operations done.
buildCatalogContext(cache, metaCache, d) ==
  IF cache # Null
    THEN [threw |-> FALSE, value |-> cache.v, cache |-> cache, metaCache |-> metaCache,
          io |-> {}, metaCalled |-> FALSE]
    ELSE LoadCatalogFromStorage(cache, metaCache, d)

(***************************************************************************)
(* The analyze request: form fields, history, payload.                     *)
(***************************************************************************)
SYSTEM_PROMPT == TextPart("SYSTEM_PROMPT", <<>>)

\* A File of the form data.
File(type, bytes) == [t |-> "file", type |-> type, bytes |-> bytes]

\* The `history` form field: absent (null), the empty string, or a text.
NoHistory == [present |-> FALSE]
EmptyHistory == [present |-> TRUE, empty |-> TRUE]
HistoryText(text) == [present |-> TRUE, empty |-> FALSE, text |-> text]
\* if (historyJson)
HistoryTruthy(h) == h.present /\ ~h.empty

\* `x > 0` for the value of a `length` property.
Positive(x) == x.t = "num" /\ x.v > 0

\* Mutant: the image of an earlier user turn is replayed as an image part.
TurnParts_ReplaysImage(msg) ==
  LET role == Get(msg, "role")
  IN IF role.t = "str" /\ role.v = "user" /\ Truthy(Get(msg, "imageUrl"))
       THEN <<InlineData("image/png", Base64(Get(msg, "imageUrl").v))>>
       ELSE <<>>

\* route.ts 218-234: the parts pushed for one history element (not null).
TurnParts(msg) ==
  LET role == Get(msg, "role")
      user ==
        (IF Truthy(Get(msg, "text"))
           THEN <<TextPart("User: $1", <<Get(msg, "text")>>)>> ELSE <<>>)
        \o (IF Truthy(Get(msg, "imageUrl"))
              THEN <<TextPart("User uploaded an image of a faucet.", <<>>)>> ELSE <<>>)
      assistant ==
        (IF Truthy(Get(msg, "assistantMessage"))
           THEN <<TextPart("Assistant: $1", <<Get(msg, "assistantMessage")>>)>> ELSE <<>>)
        \o (IF Truthy(Get(msg, "matches")) /\ Positive(Get(Get(msg, "matches"), "length"))
              THEN <<TextPart("Assistant found matches: $1",
                              <<JsonStringify(Get(msg, "matches"))>>)>>
              ELSE <<>>)
  IN IF role.t = "str" /\ role.v = "user" THEN user
     ELSE IF role.t = "str" /\ role.v = "assistant" THEN assistant
     ELSE <<>>

\* route.ts 217-235: the loop over the elements; reading `role` of a null
\* element throws, which ends the loop and keeps what was pushed before.
RECURSIVE HistoryLoop(_)
HistoryLoop(elems) ==
  IF elems = <<>> THEN <<>>
  ELSE IF ThrowsOnGet(Head(elems)) THEN <<>>
  ELSE TurnParts(Head(elems)) \o HistoryLoop(Tail(elems))

\* route.ts 213-239: the parts the history field adds.  A value that is
\* not iterable (null, a number, an object) throws in `for ... of`; the
\* characters of a string have no role.
HistoryParts(h) ==
  IF ~HistoryTruthy(h) THEN <<>>
  ELSE IF JsonParseThrows(h.text) THEN <<>>
  ELSE LET history == JsonParse(h.text)
       IN IF history.t = "arr" THEN HistoryLoop(history.v) ELSE <<>>

\* Mutant: no fallback instruction when only an image is supplied.
NewTurnText_NoFallback(message, image) ==
  IF Truthy(message) THEN <<TextPart("User: $1", <<message>>)>> ELSE <<>>

\* route.ts 241-248
NewTurnText(message, image) ==
  IF Truthy(message) THEN <<TextPart("User: $1", <<message>>)>>
  ELSE IF Truthy(image)
    THEN <<TextPart("User: $1", <<Str("Find the best match for this faucet from the catalog.")>>)>>
  ELSE <<>>

\* route.ts 250-262
NewTurnImage(image) ==
  IF Truthy(image)
    THEN <<InlineData(IF image.type # "" THEN image.type ELSE "image/png",
                      Base64(image.bytes))>>
    ELSE <<>>

\* Mutant: the history sent is the history of the request in the first slot,
\* as a server keeping the conversation would send it.
AssemblePayload_SessionHistory(catalogContext, message, image, history) ==
  <<SYSTEM_PROMPT>> \o catalogContext \o HistoryParts(req["r1"].history)
    \o NewTurnText(message, image) \o NewTurnImage(image)

\* route.ts 198-262: the payload, given the catalog context.
AssemblePayload(catalogContext, message, image, history) ==
  <<SYSTEM_PROMPT>> \o catalogContext \o HistoryParts(history)
    \o NewTurnText(message, image) \o NewTurnImage(image)

(***************************************************************************)
(* Response normalizer.  The model's text is a sequence of tokens: a       *)
(* whitespace character, a fence ```, the word json, a JSON value, or      *)
(* other text.                                                             *)
(***************************************************************************)
Ws == [k |-> "ws"]
Fence == [k |-> "fence"]
WordJson == [k |-> "json"]
Junk == [k |-> "junk"]
Value(v) == [k |-> "value", value |-> v]

\* String.prototype.trim
RECURSIVE TrimStart(_)
TrimStart(s) == IF s # <<>> /\ Head(s).k = "ws" THEN TrimStart(Tail(s)) ELSE s
RECURSIVE TrimEnd(_)
TrimEnd(s) ==
  IF s # <<>> /\ s[Len(s)].k = "ws" THEN TrimEnd(SubSeq(s, 1, Len(s) - 1)) ELSE s
Trim(s) == TrimEnd(TrimStart(s))

\* Mutant: only the bare fence opener is stripped.
StripFences_BareOnly(text) ==
  LET t0 == Trim(text)
      t2 == IF t0 # <<>> /\ t0[1].k = "fence" THEN Tail(t0) ELSE t0
      t3 == IF t2 # <<>> /\ t2[Len(t2)].k = "fence"
              THEN SubSeq(t2, 1, Len(t2) - 1) ELSE t2
  IN Trim(t3)

\* route.ts 270-280
StripFences(text) ==
  LET t0 == Trim(text)
      t1 == IF Len(t0) >= 2 /\ t0[1].k = "fence" /\ t0[2].k = "json"
              THEN SubSeq(t0, 3, Len(t0)) ELSE t0
      t2 == IF t1 # <<>> /\ t1[1].k = "fence" THEN Tail(t1) ELSE t1
      t3 == IF t2 # <<>> /\ t2[Len(t2)].k = "fence"
              THEN SubSeq(t2, 1, Len(t2) - 1) ELSE t2
  IN Trim(t3)

\* JSON.parse of a token text: one JSON value, with whitespace around it
\* allowed; anything else throws.
TextParseThrows(text) == ~(Len(Trim(text)) = 1 /\ Trim(text)[1].k = "value")
TextParse(text) == Trim(text)[1].value

\* route.ts 314: metadata[match.filename] || {}
MetaFor(metadata, match) ==
  LET filename == Get(match, "filename")
  IN OrElse(IF filename.t = "str" THEN Get(metadata, filename.v) ELSE Undefined,
            EmptyObj)

\* Mutant: the catalog's title, brand and color are preferred to the model's.
EnrichMatch_CatalogFirst(metadata, match) ==
  LET meta == MetaFor(metadata, match)
  IN [filename |-> Get(match, "filename"),
      title |-> OrElse(OrElse(Get(meta, "Title"), Get(match, "title")), Str("")),
      brand |-> OrElse(OrElse(Get(meta, "Brand"), Get(match, "brand")), Str("")),
      color |-> OrElse(OrElse(Get(meta, "VarDim_Color"), Get(match, "color")), Str("")),
      confidence |-> IF Get(match, "confidence").t = "num"
                       THEN Get(match, "confidence") ELSE Num(0),
      reasoning |-> OrElse(Get(match, "reasoning"), Str(""))]

\* route.ts 313-324: one enriched match (the element is not null).
EnrichMatch(metadata, match) ==
  LET meta == MetaFor(metadata, match)
  IN [filename |-> Get(match, "filename"),
      title |-> OrElse(OrElse(Get(match, "title"), Get(meta, "Title")), Str("")),
      brand |-> OrElse(OrElse(Get(match, "brand"), Get(meta, "Brand")), Str("")),
      color |-> OrElse(OrElse(Get(match, "color"), Get(meta, "VarDim_Color")), Str("")),
      confidence |-> IF Get(match, "confidence").t = "num"
                       THEN Get(match, "confidence") ELSE Num(0),
      reasoning |-> OrElse(Get(match, "reasoning"), Str(""))]

\* The responses of the route.
NoResponse == [status |-> 0]
ErrorResponse(status, error) == [status |-> status, error |-> error]
RawErrorResponse(error, rawResponse) ==
  [status |-> 500, error |-> error, rawResponse |-> rawResponse]
OkResponse(message, matches) == [status |-> 200, message |-> message, matches |-> matches]

\* Mutant: the parse failure is reported without the text.
ParseErrorResponse_NoRaw(responseText) ==
  ErrorResponse(500, "Failed to parse model response")

\* route.ts 286-295
ParseErrorResponse(responseText) ==
  RawErrorResponse("Failed to parse model response", responseText)

\* route.ts 269-337: the response to the model's text `text`, given the
\* metadata loadImageMetadata() returns.
Normalize(text, metadata) ==
  LET responseText == StripFences(text)
  IN IF TextParseThrows(responseText)
       THEN ParseErrorResponse(responseText)
     ELSE LET parsedResponse == TextParse(responseText)
          IN IF ThrowsOnGet(parsedResponse)
               THEN ErrorResponse(500, "Cannot read properties of null (reading 'matches')")
             ELSE IF ~Truthy(Get(parsedResponse, "matches"))
                     \/ Get(parsedResponse, "matches").t # "arr"
               THEN RawErrorResponse("Invalid response structure from model", responseText)
             ELSE LET matches == Get(parsedResponse, "matches").v
                  IN IF \E i \in 1..Len(matches) : ThrowsOnGet(matches[i])
                       THEN ErrorResponse(500,
                              "Cannot read properties of null (reading 'filename')")
                       ELSE OkResponse(OrElse(Get(parsedResponse, "message"), Str("")),
                                       [i \in 1..Len(matches) |->
                                          EnrichMatch(metadata, matches[i])])

\* Whether the route reaches line 309 (loadImageMetadata) for a text.
ReachesEnrichment(text) ==
  LET responseText == StripFences(text)
  IN /\ ~TextParseThrows(responseText)
     /\ ~ThrowsOnGet(TextParse(responseText))
     /\ Truthy(Get(TextParse(responseText), "matches"))
     /\ Get(TextParse(responseText), "matches").t = "arr"

(***************************************************************************)
(* State.                                                                  *)
(***************************************************************************)
vars ==
  <<apiKey, disk, catalogContextCache, imageMetadataCache, req, io, loads, hist, img,
    gate, chat>>

\* The request slots: requests handled one after the other reuse a slot.
Slots == {"r1"}

\* The slots of requests handled concurrently: the handler is re-entered at
\* each await.
AllSlots == {"r1", "r2"}

\* What generateContent or response.text() threw: nothing, an Error with a
\* message, or a value that is not an Error.
NothingThrown == [thrown |-> FALSE]
ErrorObject(message) == [thrown |-> TRUE, error |-> TRUE, message |-> message]
NonError == [thrown |-> TRUE, error |-> FALSE]

IdleRequest ==
  [pc |-> "idle", malformed |-> FALSE, message |-> Null, image |-> Null,
   history |-> NoHistory, payload |-> <<>>, calls |-> 0, catalog |-> "unread",
   replied |-> FALSE, reply |-> <<>>, thrown |-> NothingThrown,
   response |-> NoResponse]

\* A request body: the form data, or a body formData() rejects.
Body(message, image, history) ==
  [malformed |-> FALSE, message |-> message, image |-> image, history |-> history]
MalformedBody ==
  [malformed |-> TRUE, message |-> Null, image |-> Null, history |-> NoHistory]

\* The image-serving endpoint before its first request.
NoImageRequest == [pc |-> "idle"]

NotCalled == [called |-> FALSE]
Returned(value) == [called |-> TRUE, threw |-> FALSE, value |-> value]
Threw == [called |-> TRUE, threw |-> TRUE]
NoLoads == [ctx |-> NotCalled, meta |-> NotCalled]

MetaOps == {"meta.exists", "meta.read"}
DirOps == {"dir.exists", "dir.read"}

EmptyDir == [n \in FileNames |-> "none"]
NoStorage == [dir |-> FALSE, entries |-> EmptyDir, meta |-> NoMetaFile]

\* The history of loader calls after a step whose calls are `l` and whose
\* storage operations are `ops`.
Remember(l, ops) ==
  [ctxCalled |-> hist.ctxCalled \/ l.ctx.called,
   metaCalled |-> hist.metaCalled \/ l.meta.called,
   metaRead |-> hist.metaRead \/ "meta.read" \in ops,
   dirRead |-> hist.dirRead \/ "dir.read" \in ops,
   lastCtx |-> IF l.ctx.called THEN l.ctx ELSE hist.lastCtx,
   sameStorage |-> IF l.ctx.called THEN TRUE ELSE hist.sameStorage]

\* The server as the process starts, before any request.
ServerInit(keys, disks) ==
  /\ apiKey \in keys
  /\ disk \in disks
  /\ catalogContextCache = Null
  /\ imageMetadataCache = Null
  /\ req = [r \in AllSlots |-> IdleRequest]
  /\ io = {}
  /\ loads = NoLoads
  /\ hist = [ctxCalled |-> FALSE, metaCalled |-> FALSE, metaRead |-> FALSE,
             dirRead |-> FALSE, lastCtx |-> NotCalled, sameStorage |-> TRUE]
  /\ img = NoImageRequest

\* The login gate with both secrets configured and a client without cookie;
\* the chat page as it is first rendered.
NoExchange == [kind |-> "none"]
GateWith(validEmail, validPassword) ==
  [validEmail |-> validEmail, validPassword |-> validPassword,
   cookie |-> Undefined, granted |-> FALSE, last |-> NoExchange]
NoFetch == [pending |-> FALSE]
FreshChat ==
  [messages |-> <<>>, message |-> "", file |-> Null, uploadProgress |-> 0,
   isUploading |-> FALSE, isLoading |-> FALSE, intervals |-> {}, inflight |-> NoFetch]

InitWith(keys, disks) ==
  /\ ServerInit(keys, disks)
  /\ gate = GateWith(Str("e"), Str("p"))
  /\ chat = FreshChat

(***************************************************************************)
(* POST /api/analyze, one action per stretch between two awaits.           *)
(***************************************************************************)
\* route.ts 172-182: the credential check, up to `await request.formData()`.
PostStart(r, bodies) ==
  /\ req[r].pc = "idle"
  /\ \E b \in bodies :
       req' = [req EXCEPT ![r] =
                 IF ~Truthy(apiKey)
                   THEN [IdleRequest EXCEPT
                           !.pc = "done", !.malformed = b.malformed,
                           !.message = b.message, !.image = b.image,
                           !.history = b.history,
                           !.response = ErrorResponse(500,
                              "GOOGLE_API_KEY environment variable is not set")]
                   ELSE [IdleRequest EXCEPT
                           !.pc = "formData", !.malformed = b.malformed,
                           !.message = b.message, !.image = b.image,
                           !.history = b.history]]
  /\ io' = {}
  /\ loads' = NoLoads
  /\ hist' = Remember(NoLoads, {})
  /\ UNCHANGED <<apiKey, disk, catalogContextCache, imageMetadataCache, img, gate, chat>>

\* Mutant: `message === null && image === null` instead of the falsy test.
MissingInput_NullOnly(message, image) == message = Null /\ image = Null

\* route.ts 187
MissingInput(message, image) == ~Truthy(message) /\ ~Truthy(image)

\* Mutant: `if (!catalogContext)`, which an empty array never satisfies.
CatalogMissing_Falsy(catalogContext) == FALSE

\* route.ts 205
CatalogMissing(catalogContext) == Len(catalogContext) = 0

\* What loadContext would return in the current state: "empty", "nonempty"
\* or "threw".
CatalogState ==
  LET b == buildCatalogContext(catalogContextCache, imageMetadataCache, disk)
  IN IF b.threw THEN "threw" ELSE IF b.value = <<>> THEN "empty" ELSE "nonempty"

\* route.ts 182-265: from the form data to the call of generateContent.
PostAssemble(r) ==
  /\ req[r].pc = "formData"
  /\ LET q == req[r]
         b == buildCatalogContext(catalogContextCache, imageMetadataCache, disk)
         seen == [q EXCEPT !.catalog = CatalogState]
     IN IF q.malformed
          THEN /\ req' = [req EXCEPT ![r] =
                            [q EXCEPT !.pc = "done",
                                      !.response = ErrorResponse(500, "Failed to parse body")]]
               /\ io' = {}
               /\ loads' = NoLoads
               /\ hist' = Remember(NoLoads, {})
               /\ UNCHANGED <<catalogContextCache, imageMetadataCache, gate, chat>>
        ELSE IF MissingInput(q.message, q.image)
          THEN /\ req' = [req EXCEPT ![r] =
                            [seen EXCEPT !.pc = "done",
                                         !.response = ErrorResponse(400,
                                            "Please provide a message or an image")]]
               /\ io' = {}
               /\ loads' = NoLoads
               /\ hist' = Remember(NoLoads, {})
               /\ UNCHANGED <<catalogContextCache, imageMetadataCache, gate, chat>>
        ELSE /\ catalogContextCache' = b.cache
             /\ imageMetadataCache' = b.metaCache
             /\ io' = b.io
             /\ loads' = [ctx |-> IF b.threw THEN Threw ELSE Returned(b.value),
                          meta |-> IF b.metaCalled THEN Returned(b.metaValue) ELSE NotCalled]
             /\ hist' = Remember(loads', b.io)
             /\ req' = [req EXCEPT ![r] =
                  IF b.threw
                    THEN [seen EXCEPT !.pc = "done",
                                      !.response = ErrorResponse(500, "ENOENT")]
                  ELSE IF CatalogMissing(b.value)
                    THEN [seen EXCEPT !.pc = "done",
                                      !.response = ErrorResponse(500,
                                         "No catalog images found. Please add images to the catalog.")]
                  ELSE [seen EXCEPT !.pc = "invoking",
                                    !.payload = AssemblePayload(b.value, q.message,
                                                                q.image, q.history),
                                    !.calls = q.calls + 1]]
  /\ UNCHANGED <<apiKey, disk, img, gate, chat>>

\* route.ts 265-325: generateContent resolved with `text`.
PostReply(r, texts) ==
  /\ req[r].pc = "invoking"
  /\ \E text \in texts :
       LET m == loadImageMetadata(imageMetadataCache, disk)
           reached == ReachesEnrichment(text)
       IN /\ req' = [req EXCEPT ![r] =
                       [@ EXCEPT !.pc = "done", !.replied = TRUE, !.reply = text,
                                 !.response = Normalize(text, m.value)]]
          /\ imageMetadataCache' = IF reached THEN m.cache ELSE imageMetadataCache
          /\ io' = IF reached THEN m.io ELSE {}
          /\ loads' = [ctx |-> NotCalled,
                       meta |-> IF reached THEN Returned(m.value) ELSE NotCalled]
          /\ hist' = Remember(loads', io')
  /\ UNCHANGED <<apiKey, disk, catalogContextCache, img, gate, chat>>

\* Mutant: the catch block answers with its generic message.
CatchMessage_Generic(e) == "An unexpected error occurred"

\* route.ts 330-333
CatchMessage(e) == IF e.error THEN e.message ELSE "An unexpected error occurred"

\* route.ts 265-267, 326-337: generateContent rejected, or response.text()
\* threw, with one of the values `thrown`.
PostInvokeError(r, thrown) ==
  /\ req[r].pc = "invoking"
  /\ \E e \in thrown :
       req' = [req EXCEPT ![r] =
                 [@ EXCEPT !.pc = "done", !.thrown = e,
                           !.response = ErrorResponse(500, CatchMessage(e))]]
  /\ io' = {}
  /\ loads' = NoLoads
  /\ hist' = Remember(NoLoads, {})
  /\ UNCHANGED <<apiKey, disk, catalogContextCache, imageMetadataCache, img, gate, chat>>

\* The response returned by POST is sent and the handler's frame is gone:
\* the slot is free for the next request.
PostReturn(r) ==
  /\ req[r].pc = "done"
  /\ req' = [req EXCEPT ![r] = IdleRequest]
  /\ io' = {}
  /\ loads' = NoLoads
  /\ hist' = Remember(NoLoads, {})
  /\ UNCHANGED <<apiKey, disk, catalogContextCache, imageMetadataCache, img, gate, chat>>

(***************************************************************************)
(* The environment: catalog storage changes between the steps.             *)
(***************************************************************************)
StorageStep(d) ==
  /\ disk' = d
  /\ io' = {}
  /\ loads' = NoLoads
  /\ hist' = [hist EXCEPT !.sameStorage = FALSE]
  /\ UNCHANGED <<apiKey, catalogContextCache, imageMetadataCache, req, img, gate, chat>>

MakeDir == ~disk.dir /\ StorageStep([disk EXCEPT !.dir = TRUE])

RemoveDir == disk.dir /\ StorageStep([disk EXCEPT !.dir = FALSE, !.entries = EmptyDir])

PutEntry(names) ==
  /\ disk.dir
  /\ \E n \in names, k \in EntryKinds :
       /\ Cardinality(Listing(disk.entries) \cup {n}) <= MaxFiles
       /\ disk.entries[n] # k
       /\ StorageStep([disk EXCEPT !.entries[n] = k])

RemoveEntry ==
  \E n \in Listing(disk.entries) :
    StorageStep([disk EXCEPT !.entries[n] = "none"])

WriteMeta(texts) ==
  \E text \in texts :
    /\ disk.meta # MetaFile(text)
    /\ StorageStep([disk EXCEPT !.meta = MetaFile(text)])

RemoveMeta == disk.meta.exists /\ StorageStep([disk EXCEPT !.meta = NoMetaFile])

(***************************************************************************)
(* GET /api/catalog-image/[filename].  Paths are sequences of characters;  *)
(* the working directory is /w, public is p and catalog-images is c.       *)
(***************************************************************************)
\* The characters of s after position i, up to the next "/" or the end.
RECURSIVE SegmentFrom(_, _)
SegmentFrom(s, i) ==
  IF i > Len(s) \/ s[i] = "/" THEN <<>> ELSE <<s[i]>> \o SegmentFrom(s, i + 1)

\* s.split("/"): the segments between the separators.
RECURSIVE SplitFrom(_, _)
SplitFrom(s, i) ==
  LET seg == SegmentFrom(s, i)
      next == i + Len(seg)
  IN IF next > Len(s) THEN <<seg>> ELSE <<seg>> \o SplitFrom(s, next + 1)
Split(s) == SplitFrom(s, 1)

\* normalizeString of an absolute path: empty and "." segments are dropped,
\* ".." drops the segment before it (and is dropped itself at the root).
RECURSIVE NormalizeSegments(_, _)
NormalizeSegments(segs, acc) ==
  IF segs = <<>> THEN acc
  ELSE LET seg == Head(segs)
       IN IF seg = <<>> \/ seg = <<".">> THEN NormalizeSegments(Tail(segs), acc)
          ELSE IF seg = <<".", ".">>
            THEN NormalizeSegments(Tail(segs),
                                   IF acc = <<>> THEN acc ELSE SubSeq(acc, 1, Len(acc) - 1))
          ELSE NormalizeSegments(Tail(segs), Append(acc, seg))

\* The text of an absolute path with the given segments.
RECURSIVE JoinSegments(_)
JoinSegments(segs) ==
  IF segs = <<>> THEN <<>> ELSE <<"/">> \o Head(segs) \o JoinSegments(Tail(segs))
PathText(segs) == IF segs = <<>> THEN <<"/">> ELSE JoinSegments(segs)

\* path.join(dir, name) for an absolute dir: the normalized dir + "/" + name,
\* which keeps a trailing separator.
PathJoin(dir, name) ==
  LET joined == dir \o <<"/">> \o name
      segs == NormalizeSegments(Split(joined), <<>>)
  IN IF segs # <<>> /\ joined[Len(joined)] = "/"
       THEN PathText(segs) \o <<"/">> ELSE PathText(segs)

\* path.resolve(p) for an absolute p: normalized, without trailing separator.
PathResolve(p) == PathText(NormalizeSegments(Split(p), <<>>))

\* String.prototype.startsWith
StartsWith(s, prefix) == Len(s) >= Len(prefix) /\ SubSeq(s, 1, Len(prefix)) = prefix

\* process.cwd() + "public/catalog-images"
CatalogDir == <<"/", "w", "/", "p", "/", "c">>

\* The regular files and the directories of the file system, by resolved
\* path: a catalog image, a file in a sibling whose name starts like the
\* catalog directory's, and a file above.
TreeFiles ==
  { <<"/", "w", "/", "p", "/", "c", "/", "a">>,
    <<"/", "w", "/", "p", "/", "c", "a">>,
    <<"/", "w", "/", "a">> }
TreeDirs ==
  { <<"/">>, <<"/", "w">>, <<"/", "w", "/", "p">>, <<"/", "w", "/", "p", "/", "c">> }

\* fs.existsSync(p): a path with a trailing separator names a directory.
ExistsSync(p) ==
  IF Len(p) > 1 /\ p[Len(p)] = "/"
    THEN PathResolve(p) \in TreeDirs
    ELSE PathResolve(p) \in TreeFiles \cup TreeDirs

\* fs.readFileSync(p) returns the bytes of a regular file and throws on
\* anything else.
ReadFileThrows(p) ==
  ~(p[Len(p)] # "/" /\ PathResolve(p) \in TreeFiles)

ImageResponse(filename, status, read) ==
  [pc |-> "done", filename |-> filename, status |-> status, read |-> read]

\* catalog-image/[filename]/route.ts 9-47: the response to a filename, and
\* the file whose bytes it carries (<<>> when none was read).  The headers
\* of the response are not modelled.
GET(filename) ==
  IF filename = <<>> THEN ImageResponse(filename, 400, <<>>)
  ELSE LET filePath == PathJoin(CatalogDir, filename)
           resolvedPath == PathResolve(filePath)
           resolvedCatalogDir == PathResolve(CatalogDir)
       IN IF ~StartsWith(resolvedPath, resolvedCatalogDir)
            THEN ImageResponse(filename, 400, <<>>)
          ELSE IF ~ExistsSync(filePath) THEN ImageResponse(filename, 404, <<>>)
          ELSE IF ReadFileThrows(filePath) THEN ImageResponse(filename, 500, <<>>)
          ELSE ImageResponse(filename, 200, resolvedPath)

\* A request for `filename` is handled.
ImageGet(filenames) ==
  /\ img.pc = "idle"
  /\ \E filename \in filenames : img' = GET(filename)
  /\ UNCHANGED <<apiKey, disk, catalogContextCache, imageMetadataCache, req, io, loads, hist, gate, chat>>

\* The response has been sent; the endpoint keeps nothing between requests.
ImageReturn ==
  /\ img.pc = "done"
  /\ img' = NoImageRequest
  /\ UNCHANGED <<apiKey, disk, catalogContextCache, imageMetadataCache, req, io, loads, hist, gate, chat>>

(***************************************************************************)
(* The login gate: middleware.ts and the login route.  Path names are      *)
(* sequences of characters.                                                *)
(***************************************************************************)
\* String.prototype.endsWith, and the `$`-anchored alternatives of the matcher.
EndsWith(s, suffix) ==
  Len(s) >= Len(suffix) /\ SubSeq(s, Len(s) - Len(suffix) + 1, Len(s)) = suffix

RootPath == <<"/">>
LoginPath == <<"/", "l", "o", "g", "i", "n">>
AuthApiPrefix == <<"/", "a", "p", "i", "/", "a", "u", "t", "h">>

\* middleware.ts 36: the alternatives of the negative lookahead.
MatcherPrefixes ==
  { <<"_", "n", "e", "x", "t", "/", "s", "t", "a", "t", "i", "c">>,
    <<"_", "n", "e", "x", "t", "/", "i", "m", "a", "g", "e">>,
    <<"f", "a", "v", "i", "c", "o", "n", ".", "i", "c", "o">>,
    <<"c", "a", "t", "a", "l", "o", "g", "-", "i", "m", "a", "g", "e", "s">> }
MatcherSuffixes ==
  { <<".", "p", "n", "g">>, <<".", "j", "p", "g">>,
    <<".", "j", "p", "e", "g">>, <<".", "s", "v", "g">> }

\* middleware.ts 27-38: whether the matcher hands a path to the middleware.
MatcherApplies(pathname) ==
  /\ pathname # <<>> /\ Head(pathname) = "/"
  /\ ~\E x \in MatcherPrefixes : StartsWith(Tail(pathname), x)
  /\ ~\E x \in MatcherSuffixes : EndsWith(Tail(pathname), x)

PassThrough == [action |-> "next"]
Redirect(to) == [action |-> "redirect", to |-> to]

\* middleware.ts 3-25
middleware(cookie, pathname) ==
  LET isAuthenticated == cookie = Str("authenticated")
      isLoginPage == pathname = LoginPath
      isAuthApi == StartsWith(pathname, AuthApiPrefix)
  IN IF isAuthApi THEN PassThrough
     ELSE IF isLoginPage /\ isAuthenticated THEN Redirect(RootPath)
     ELSE IF ~isLoginPage /\ ~isAuthenticated THEN Redirect(LoginPath)
     ELSE PassThrough

\* What the server does with a request for a path by a client holding
\* `cookie`: paths the matcher leaves out reach their handler directly.
Route(cookie, pathname) ==
  IF MatcherApplies(pathname) THEN middleware(cookie, pathname) ELSE PassThrough

\* Mutant: the password is not compared.
CredentialsMatch_EmailOnly(email, password, validEmail, validPassword) ==
  email = validEmail

\* layout.tsx 38
CredentialsMatch(email, password, validEmail, validPassword) ==
  email = validEmail /\ password = validPassword

LoginBody(value) == [malformed |-> FALSE, value |-> value]
MalformedLogin == [malformed |-> TRUE]
LoginResponse(status, setCookie) == [status |-> status, setCookie |-> setCookie]

\* layout.tsx 24-60: the login route.
LoginPOST(body, validEmail, validPassword) ==
  IF body.malformed \/ ThrowsOnGet(body.value) THEN LoginResponse(400, Undefined)
  ELSE IF ~Truthy(validEmail) \/ ~Truthy(validPassword) THEN LoginResponse(500, Undefined)
  ELSE IF CredentialsMatch(Get(body.value, "email"), Get(body.value, "password"),
                           validEmail, validPassword)
    THEN LoginResponse(200, Str("authenticated"))
  ELSE LoginResponse(401, Undefined)

\* Whether a login body carries the two configured secrets.
Configured(secret) == secret.t = "str" /\ secret.v # ""
CorrectLogin(body) ==
  /\ ~body.malformed /\ body.value.t = "obj"
  /\ Configured(gate.validEmail) /\ Configured(gate.validPassword)
  /\ "email" \in body.value.keys /\ body.value.v.email = gate.validEmail
  /\ "password" \in body.value.keys /\ body.value.v.password = gate.validPassword

\* The client posts a login body; the browser keeps the cookie the response
\* sets.
GateLogin(bodies) ==
  /\ \E body \in bodies :
       LET response == LoginPOST(body, gate.validEmail, gate.validPassword)
       IN gate' = [gate EXCEPT
                     !.cookie = IF response.setCookie # Undefined
                                  THEN response.setCookie ELSE @,
                     !.granted = @ \/ CorrectLogin(body),
                     !.last = [kind |-> "login", body |-> body, response |-> response]]
  /\ UNCHANGED <<apiKey, disk, catalogContextCache, imageMetadataCache, req, io, loads,
                 hist, img, chat>>

\* The client requests a path, presenting the cookie it holds.
GateVisit(paths) ==
  /\ \E pathname \in paths :
       gate' = [gate EXCEPT
                  !.last = [kind |-> "request", path |-> pathname,
                            result |-> Route(gate.cookie, pathname)]]
  /\ UNCHANGED <<apiKey, disk, catalogContextCache, imageMetadataCache, req, io, loads,
                 hist, img, chat>>

\* layout.tsx 46: the session cookie reaches its maxAge and the browser
\* drops it.
GateCookieExpires ==
  /\ gate.cookie # Undefined
  /\ gate' = [gate EXCEPT !.cookie = Undefined, !.last = NoExchange]
  /\ UNCHANGED <<apiKey, disk, catalogContextCache, imageMetadataCache, req, io, loads,
                 hist, img, chat>>

(***************************************************************************)
(* The chat page (Home): its React state, the intervals of the simulated   *)
(* uploads and the fetch in flight.                                        *)
(***************************************************************************)
\* A file the user picks: its name, type and size in bytes.
Picked(name, type, size) == [t |-> "file", name |-> name, type |-> type, size |-> size]

\* part_000 57-60
isValidImageFile(file) ==
  file.type \in {"image/png", "image/jpeg", "image/jpg"} /\ file.size <= 200 * 1024 * 1024

\* message.trim() for the texts typed in the model.
TrimText(text) == IF text = " " THEN "" ELSE text

\* part_000 375: the Send button is disabled.
SendDisabled ==
  chat.isLoading \/ chat.isUploading \/ (TrimText(chat.message) = "" /\ chat.file = Null)

\* part_000 285: the user types in the textarea.
ChatType(texts) ==
  /\ \E text \in texts : text # chat.message /\ chat' = [chat EXCEPT !.message = text]
  /\ UNCHANGED <<apiKey, disk, catalogContextCache, imageMetadataCache, req, io, loads,
                 hist, img, gate>>

\* part_000 48-55, 62-84: the user drops a file or picks one; a valid file
\* starts a simulated upload with its own interval.
ChatSelect(files) ==
  /\ \E selectedFile \in files :
       /\ selectedFile \notin chat.intervals
       /\ chat' = IF isValidImageFile(selectedFile)
                    THEN [chat EXCEPT !.isUploading = TRUE, !.uploadProgress = 0,
                                      !.intervals = @ \cup {selectedFile}]
                    ELSE chat
  /\ UNCHANGED <<apiKey, disk, catalogContextCache, imageMetadataCache, req, io, loads,
                 hist, img, gate>>

\* part_000 66-76: one tick of the interval of `selectedFile`.
ChatTick ==
  /\ \E selectedFile \in chat.intervals :
       chat' = IF chat.uploadProgress >= 100
                 THEN [chat EXCEPT !.intervals = @ \ {selectedFile},
                                   !.isUploading = FALSE, !.file = selectedFile,
                                   !.uploadProgress = 100]
                 ELSE [chat EXCEPT !.uploadProgress = @ + 10]
  /\ UNCHANGED <<apiKey, disk, catalogContextCache, imageMetadataCache, req, io, loads,
                 hist, img, gate>>

\* part_000 86-92, 338-368: the remove button, shown for a file when no
\* upload is running.
ChatRemove ==
  /\ (chat.isUploading \/ chat.file # Null) /\ ~chat.isUploading
  /\ chat' = [chat EXCEPT !.file = Null, !.uploadProgress = 0]
  /\ UNCHANGED <<apiKey, disk, catalogContextCache, imageMetadataCache, req, io, loads,
                 hist, img, gate>>

\* part_000 107-111: the user's turn.
UserTurn(message, file) ==
  [role |-> "user",
   text |-> IF TrimText(message) # "" THEN Str(TrimText(message)) ELSE Undefined,
   imageUrl |-> IF file # Null THEN Str(file.name) ELSE Undefined]

\* part_000 100-131: Send, up to the await of fetch.
ChatSubmit ==
  /\ ~SendDisabled
  /\ Len(chat.messages) < 2 * MaxTurns
  /\ ~(TrimText(chat.message) = "" /\ chat.file = Null)
  /\ chat' = [chat EXCEPT
                !.messages = Append(@, UserTurn(chat.message, chat.file)),
                !.isLoading = TRUE,
                !.inflight = [pending |-> TRUE, message |-> chat.message,
                              file |-> chat.file, history |-> chat.messages]]
  /\ UNCHANGED <<apiKey, disk, catalogContextCache, imageMetadataCache, req, io, loads,
                 hist, img, gate>>

\* part_000 139-153: the assistant's turn for an answer.
AssistantTurn(ok) ==
  IF ok THEN [role |-> "assistant", assistantMessage |-> Str("m")]
        ELSE [role |-> "assistant", text |-> Str("Error: e")]

\* part_000 133-163: the fetch settles, with a 200 answer or not.
ChatResponse ==
  /\ chat.inflight.pending
  /\ \E ok \in BOOLEAN :
       chat' = [chat EXCEPT
                  !.messages = Append(@, AssistantTurn(ok)),
                  !.isLoading = FALSE, !.message = "", !.file = Null,
                  !.uploadProgress = 0, !.inflight = NoFetch]
  /\ UNCHANGED <<apiKey, disk, catalogContextCache, imageMetadataCache, req, io, loads,
                 hist, img, gate>>

(***************************************************************************)
(* Specifications.                                                         *)
(***************************************************************************)
AFaucet == Obj([filename |-> Str("a.png"), confidence |-> Num(1)])
GoodText == <<Value(Obj([message |-> Str("m"), matches |-> Arr(<<AFaucet>>)]))>>
ValidMeta == JsonText(Obj([n \in {"a.png"} |-> FullEntry]))

\* The catalog loader under changing storage, with few kinds of requests.
CatalogBodies == {Body(Str("hi"), Null, NoHistory), Body(Null, Null, NoHistory)}
CatalogTexts == {GoodText, <<Junk>>}
CatalogMetas == {InvalidJson, ValidMeta}

InitCatalog == InitWith({Str("key")}, {NoStorage})

NextCatalog ==
  \/ \E r \in Slots : PostStart(r, CatalogBodies)
  \/ \E r \in Slots : PostAssemble(r)
  \/ \E r \in Slots : PostReply(r, CatalogTexts)
  \/ \E r \in Slots : PostInvokeError(r, {ErrorObject("fetch failed")})
  \/ \E r \in Slots : PostReturn(r)
  \/ MakeDir
  \/ RemoveDir
  \/ PutEntry(FileNames)
  \/ RemoveEntry
  \/ WriteMeta(CatalogMetas)
  \/ RemoveMeta

SpecCatalog == InitCatalog /\ [][NextCatalog]_vars

\* Requests of every shape on a storage that does not change.
UserText == Obj([role |-> Str("user"), text |-> Str("q")])
UserBoth == Obj([role |-> Str("user"), text |-> Str("q"), imageUrl |-> Str("blob:1")])
UserImage == Obj([role |-> Str("user"), imageUrl |-> Str("blob:1")])
AssistantBoth ==
  Obj([role |-> Str("assistant"), assistantMessage |-> Str("m"),
       matches |-> Arr(<<AFaucet>>)])
AssistantMessage ==
  Obj([role |-> Str("assistant"), assistantMessage |-> Str("m"), matches |-> Arr(<<>>)])
OtherRole == Obj([role |-> Str("system"), text |-> Str("q")])
Turns == {UserText, UserBoth, UserImage, AssistantBoth, AssistantMessage, OtherRole}

\* The sequences of at most n elements of S.
SeqsUpTo(S, n) == UNION {[1..k -> S] : k \in 0..n}

Histories ==
  {NoHistory, EmptyHistory, HistoryText(InvalidJson), HistoryText(JsonText(Null)),
   HistoryText(JsonText(UserText)), HistoryText(JsonText(Str("ab")))}
  \cup {HistoryText(JsonText(Arr(h))) : h \in SeqsUpTo(Turns \cup {Null}, MaxHistory)}

Messages == {Null, Str(""), Str("hi")}
Images == {Null, File("", "upload1"), File("image/jpeg", "upload2")}
RequestBodies ==
  {MalformedBody} \cup {Body(m, i, h) : m \in Messages, i \in Images, h \in Histories}

Directory(files, dirs) ==
  [n \in FileNames |-> IF n \in files THEN "file" ELSE IF n \in dirs THEN "dir" ELSE "none"]
RequestDisks ==
  { NoStorage,
    [dir |-> TRUE, entries |-> EmptyDir, meta |-> MetaFile(ValidMeta)],
    [dir |-> TRUE, entries |-> Directory({"d.txt", ".png"}, {"a.png"}), meta |-> NoMetaFile],
    [dir |-> TRUE, entries |-> Directory({"a.png", "B.JPG"}, {}), meta |-> MetaFile(ValidMeta)] }

InitRequest == InitWith({Undefined, Str(""), Str("key")}, RequestDisks)

NextRequest ==
  \/ \E r \in Slots : PostStart(r, RequestBodies)
  \/ \E r \in Slots : PostAssemble(r)
  \/ \E r \in Slots : PostReply(r, CatalogTexts)
  \/ \E r \in Slots : PostInvokeError(r, {ErrorObject("fetch failed")})
  \/ \E r \in Slots : PostReturn(r)

SpecRequest == InitRequest /\ [][NextRequest]_vars

\* The model's replies of every shape, to one request.
Faucets ==
  { AFaucet,
    Obj([filename |-> Str("x.png"), confidence |-> Str("high")]),
    Obj([filename |-> Str("a.png"), title |-> Str("Mine"), brand |-> Str(""),
         confidence |-> Num(0), reasoning |-> Str("why")]) }
MatchElements == Faucets \cup {Null, Num(5)}
ReplyValues ==
  { Null, Num(3), Str("s"), Arr(<<>>), Obj([message |-> Str("m")]),
    Obj([matches |-> Null]), Obj([matches |-> Str("x")]), Obj([matches |-> Num(3)]),
    Obj([matches |-> Obj([length |-> Num(1)])]) }
  \cup {Obj([matches |-> Arr(ms)]) : ms \in SeqsUpTo(MatchElements, MaxMatches)}
  \cup {Obj([message |-> Str("m"), matches |-> Arr(ms)]) : ms \in SeqsUpTo(Faucets, 1)}
\* The ways a text is wrapped: alone, in a ```json fence or in a bare
\* fence, with or without whitespace around the fences and the text.
Gaps == {<<>>, <<Ws>>}
FencePairs ==
  { [open |-> <<>>, close |-> <<>>],
    [open |-> <<Fence, WordJson>>, close |-> <<Fence>>],
    [open |-> <<Fence>>, close |-> <<Fence>>] }
Wrappings(text) ==
  { a \o f.open \o b \o text \o c \o f.close \o d :
      a \in Gaps, b \in Gaps, c \in Gaps, d \in Gaps, f \in FencePairs }
ReplyTexts ==
  { <<>>, <<Junk>>, <<Fence, WordJson>>, <<Value(Arr(<<>>)), Junk>>,
    <<Fence, Junk, Ws, Value(Obj([matches |-> Arr(<<>>)])), Ws, Fence>>,
    <<Fence, WordJson, Ws, Junk, Ws, Fence>>, <<Fence, Fence>> }
  \cup UNION {Wrappings(<<Value(v)>>) : v \in ReplyValues}

Failures == {ErrorObject("fetch failed"), ErrorObject("quota exceeded"), NonError}
PartialMeta == JsonText(Obj([n \in {"a.png"} |-> PartialEntry]))
NormalizeDisks ==
  { [dir |-> TRUE, entries |-> Directory({"a.png", "B.JPG"}, {}), meta |-> MetaFile(ValidMeta)],
    [dir |-> TRUE, entries |-> Directory({"a.png"}, {}), meta |-> MetaFile(PartialMeta)],
    [dir |-> TRUE, entries |-> Directory({"a.png"}, {}), meta |-> NoMetaFile] }

InitNormalize == InitWith({Str("key")}, NormalizeDisks)

NextNormalize ==
  \/ \E r \in Slots : PostStart(r, {Body(Str("hi"), Null, NoHistory)})
  \/ \E r \in Slots : PostAssemble(r)
  \/ \E r \in Slots : PostReply(r, ReplyTexts)
  \/ \E r \in Slots : PostInvokeError(r, Failures)
  \/ \E r \in Slots : PostReturn(r)

SpecNormalize == InitNormalize /\ [][NextNormalize]_vars

\* Two analyze requests handled concurrently on a fixed catalog.
ConcurrentBodies ==
  { Body(Str("hi"), Null, NoHistory),
    Body(Null, File("image/jpeg", Bytes("u")), NoHistory),
    Body(Str("more"), Null, HistoryText(JsonText(Arr(<<UserText, AssistantMessage>>)))),
    Body(Null, Null, NoHistory) }
ConcurrentTexts ==
  { GoodText, <<Junk>>,
    <<Value(Obj([message |-> Str("none"), matches |-> Arr(<<>>)]))>> }

InitConcurrent == InitWith({Str("key")}, NormalizeDisks)

NextConcurrent ==
  \/ \E r \in AllSlots : PostStart(r, ConcurrentBodies)
  \/ \E r \in AllSlots : PostAssemble(r)
  \/ \E r \in AllSlots : PostReply(r, ConcurrentTexts)
  \/ \E r \in AllSlots : PostInvokeError(r, {ErrorObject("fetch failed")})
  \/ \E r \in AllSlots : PostReturn(r)

SpecConcurrent == InitConcurrent /\ [][NextConcurrent]_vars

\* A client at the login gate, for each configuration of the two secrets.
ProtectedPaths ==
  { RootPath, <<"/", "a", "p", "i", "/", "a", "n", "a", "l", "y", "z", "e">>, <<"/", "c", "h", "a", "t">>, <<"/", "l", "o", "g", "i", "n", "x">> }
OpenPaths ==
  { LoginPath, <<"/", "a", "p", "i", "/", "a", "u", "t", "h", "/", "l", "o", "g", "i", "n">>,
    <<"/", "_", "n", "e", "x", "t", "/", "s", "t", "a", "t", "i", "c", "/", "c", ".", "j", "s">>,
    <<"/", "_", "n", "e", "x", "t", "/", "i", "m", "a", "g", "e">>, <<"/", "f", "a", "v", "i", "c", "o", "n", ".", "i", "c", "o">>,
    <<"/", "c", "a", "t", "a", "l", "o", "g", "-", "i", "m", "a", "g", "e", "s", "/", "a", ".", "p", "n", "g">>,
    <<"/", "a", "p", "i", "/", "c", "a", "t", "a", "l", "o", "g", "-", "i", "m", "a", "g", "e", "/", "a", ".", "p", "n", "g">>,
    <<"/", "l", "o", "g", "o", ".", "s", "v", "g">> }
LoginValues ==
  { Null, Str("e"), Obj([email |-> Str("e")]),
    Obj([email |-> Str("e"), password |-> Str("p")]),
    Obj([email |-> Str("e"), password |-> Str("x")]),
    Obj([email |-> Str("x"), password |-> Str("p")]),
    Obj([email |-> Str("e"), password |-> Str("")]),
    Obj([email |-> Str(""), password |-> Str("")]),
    Obj([email |-> Num(1), password |-> Null]), EmptyObj }
LoginBodies == {MalformedLogin} \cup {LoginBody(v) : v \in LoginValues}
GateSecrets ==
  { GateWith(Str("e"), Str("p")), GateWith(Undefined, Str("p")),
    GateWith(Str("e"), Str("")), GateWith(Undefined, Undefined) }

InitGate ==
  /\ ServerInit({Str("key")}, {NoStorage})
  /\ gate \in GateSecrets
  /\ chat = FreshChat

NextGate ==
  \/ GateLogin(LoginBodies)
  \/ GateVisit(ProtectedPaths \cup OpenPaths)
  \/ GateCookieExpires

SpecGate == InitGate /\ [][NextGate]_vars

\* The chat page under the user's events, the upload ticks and the answers.
PhotoA == Picked("a", "image/png", 1)
PhotoB == Picked("b", "image/jpeg", 2)
ChatFiles ==
  {PhotoA, PhotoB, Picked("t", "text/plain", 1), Picked("h", "image/png", 200 * 1024 * 1024 + 1)}
ChatTexts == {"", " ", "a", "b"}

InitChat ==
  /\ ServerInit({Str("key")}, {NoStorage})
  /\ gate = GateWith(Str("e"), Str("p"))
  /\ chat = FreshChat

NextChat ==
  \/ ChatType(ChatTexts)
  \/ ChatSelect(ChatFiles)
  \/ ChatTick
  \/ ChatRemove
  \/ ChatSubmit
  \/ ChatResponse

SpecChat == InitChat /\ [][NextChat]_vars

\* The image-serving endpoint on every filename of at most MaxNameLen
\* characters.
NameChars == {".", "/", "c", "a"}
ImageFilenames == SeqsUpTo(NameChars, MaxNameLen)

InitImage == InitWith({Str("key")}, {NoStorage})

NextImage ==
  \/ ImageGet(ImageFilenames)
  \/ ImageReturn

SpecImage == InitImage /\ [][NextImage]_vars

(***************************************************************************)
(* Properties of the catalog loader (SpecCatalog).                         *)
(***************************************************************************)
\* C5: the catalog cache is write-once.  Once catalogContextCache is
\* populated no step replaces or changes it; every loadContext call made
\* after that returns the cached sequence; and two consecutive loadContext
\* calls with the catalog storage unchanged between them return identical
\* results.
C5_CacheWriteOnce ==
  [][ /\ (catalogContextCache # Null => catalogContextCache' = catalogContextCache)
      /\ (catalogContextCache # Null /\ loads'.ctx.called
            => loads'.ctx = Returned(catalogContextCache.v))
      /\ (loads'.ctx.called /\ hist.lastCtx.called /\ hist.sameStorage
            => loads'.ctx = hist.lastCtx) ]_vars

\* A loadContext call is answered from the cache although the storage would
\* now load differently, after a request that failed.
C5_Witness ==
  /\ catalogContextCache # Null
  /\ loads.ctx.called
  /\ io = {}
  /\ loads.ctx = Returned(catalogContextCache.v)
  /\ LoadCatalogFromStorage(Null, Null, disk).value # catalogContextCache.v
  /\ \E r \in Slots : req[r].pc = "invoking"

\* C6 as stated: storage is loaded at most once each, whatever the first
\* call found: the metadata file is read at most once and the image
\* directory is listed at most once.
C6_LoadedAtMostOnce ==
  [][ /\ (hist.metaRead => "meta.read" \notin io')
      /\ (hist.dirRead => "dir.read" \notin io') ]_vars

\* C6 amended: once a load has succeeded (the cache is populated), later
\* calls return the cached value without touching that storage, and the
\* cache is never loaded again.
C6_NoStorageOnceCached ==
  [][ /\ (imageMetadataCache # Null => io' \cap MetaOps = {})
      /\ (catalogContextCache # Null => io' \cap DirOps = {})
      /\ (imageMetadataCache # Null => imageMetadataCache' = imageMetadataCache)
      /\ (imageMetadataCache # Null /\ loads'.meta.called
            => loads'.meta = Returned(imageMetadataCache)) ]_vars

\* loadMetadata is answered from the cache, without a storage operation,
\* after the metadata file was removed.
C6_Witness ==
  /\ imageMetadataCache # Null
  /\ loads.meta.called
  /\ loads.meta = Returned(imageMetadataCache)
  /\ io = {}
  /\ ~disk.meta.exists

\* The names of FileNames whose extension is .png, .jpg or .jpeg in any case.
ImageNames == {"a.png", "B.JPG", "c.jpeg"}

\* The file a descriptor text names.
DescribedName(part) == part.args[1].v

\* parts is one (descriptor, image) pair per regular image file of the
\* directory `entries`, in strictly ascending filename order.
PairsOf(parts, entries) ==
  LET expected == {n \in ImageNames : entries[n] = "file"}
      n == Len(parts) \div 2
  IN /\ Len(parts) = 2 * Cardinality(expected)
     /\ \A i \in 1..n :
          /\ parts[2 * i - 1].kind = "text"
          /\ parts[2 * i].kind = "inlineData"
          /\ DescribedName(parts[2 * i - 1]) \in expected
          /\ parts[2 * i].data = Base64(Bytes(DescribedName(parts[2 * i - 1])))
     /\ {DescribedName(parts[2 * i - 1]) : i \in 1..n} = expected
     /\ \A i \in 1..n : \A j \in 1..n :
          i < j => NameLess(DescribedName(parts[2 * i - 1]), DescribedName(parts[2 * j - 1]))

\* C7: the sequence a loadContext call builds from the directory is exactly
\* one (descriptor text, image) pair per regular file with a supported
\* extension and nothing else, text before image, in strictly ascending
\* filename order; so its length is even.
C7_ContextPairs ==
  /\ loads.ctx.called /\ ~loads.ctx.threw /\ "dir.read" \in io
       => PairsOf(loads.ctx.value, disk.entries)
  /\ catalogContextCache # Null => Len(catalogContextCache.v) % 2 = 0

\* A load over a directory that holds an upper-case image name and an entry
\* that is not listed.
C7_Witness ==
  /\ loads.ctx.called /\ ~loads.ctx.threw /\ "dir.read" \in io
  /\ Len(loads.ctx.value) = 2
  /\ disk.entries["B.JPG"] = "file"
  /\ disk.entries[".png"] = "file"

(***************************************************************************)
(* Properties of the request handler (SpecRequest).                        *)
(***************************************************************************)
\* A request that carries neither a message nor an image.
NoInput(q) == ~q.malformed /\ ~Truthy(q.message) /\ ~Truthy(q.image)

\* C1 as stated: every finished request without message and image, in any
\* configuration state, got the 400 InputError and never invoked the model.
C1_RejectedWith400 ==
  \A r \in Slots :
    req[r].pc = "done" /\ NoInput(req[r])
      => req[r].response.status = 400 /\ req[r].calls = 0

\* C1 amended: a finished request without message and image never invoked
\* the model; it got the 400 InputError when the API credential is set, and
\* the 500 of the missing credential otherwise.
C1_RejectedBeforeModel ==
  \A r \in Slots :
    req[r].pc = "done" /\ NoInput(req[r])
      => /\ req[r].calls = 0
         /\ req[r].payload = <<>>
         /\ req[r].response =
              IF Truthy(apiKey)
                THEN ErrorResponse(400, "Please provide a message or an image")
                ELSE ErrorResponse(500, "GOOGLE_API_KEY environment variable is not set")

\* A request with an empty message, no image and a history was rejected
\* with 400 while the catalog holds images.
C1_Witness ==
  \E r \in Slots :
    /\ req[r].pc = "done"
    /\ req[r].message = Str("") /\ req[r].image = Null
    /\ req[r].history = HistoryText(JsonText(Arr(<<UserText>>)))
    /\ req[r].response.status = 400
    /\ disk.entries["a.png"] = "file"

\* The number of image parts of a payload.
ImageParts(parts) == Cardinality({i \in 1..Len(parts) : parts[i].kind = "inlineData"})

\* The new-turn text the payload must carry.
ExpectedNewText(q) ==
  TextPart("User: $1",
           <<IF q.message.t = "str" /\ q.message.v # "" THEN q.message
             ELSE Str("Find the best match for this faucet from the catalog.")>>)

\* C8: the payload of an accepted request is the instruction part, the
\* cached catalog context unmodified, the history-derived text parts, one
\* new-turn text part (the user's text, or the fallback instruction), and
\* a final image part with the declared MIME type (image/png when none is
\* declared) if and only if an image was supplied.
C8_PayloadOrder ==
  \A r \in Slots :
    req[r].calls > 0 =>
      LET q == req[r]
          p == q.payload
          n == Len(catalogContextCache.v)
          hasImage == q.image # Null
          last == IF hasImage THEN Len(p) - 1 ELSE Len(p)
      IN /\ n > 0
         /\ Len(p) >= n + 2 + (IF hasImage THEN 1 ELSE 0)
         /\ p[1] = SYSTEM_PROMPT
         /\ SubSeq(p, 2, n + 1) = catalogContextCache.v
         /\ \A i \in (n + 2)..last : p[i].kind = "text"
         /\ last - (n + 2) = Len(HistoryParts(q.history))
         /\ p[last] = ExpectedNewText(q)
         /\ hasImage =>
              p[Len(p)] = InlineData(IF q.image.type = "" THEN "image/png" ELSE q.image.type,
                                     Base64(q.image.bytes))
         /\ ImageParts(p) = n \div 2 + (IF hasImage THEN 1 ELSE 0)

\* An image-only request with an undeclared type and a history is sent to
\* the model.
C8_Witness ==
  \E r \in Slots :
    /\ req[r].pc = "invoking"
    /\ req[r].message = Null
    /\ req[r].image = File("", "upload1")
    /\ req[r].history = HistoryText(JsonText(Arr(<<UserBoth, AssistantBoth>>)))
    /\ req[r].payload[Len(req[r].payload)].mimeType = "image/png"

\* What the claim has a turn contribute: for a user turn its text line and
\* then the image sentinel, for an assistant turn its message line and then
\* the listing of its matches, each only if the turn has it.
HasText(turn, field) ==
  field \in turn.keys /\ turn.v[field].t = "str" /\ turn.v[field].v # ""
ExpectedTurn(turn) ==
  IF turn.v.role = Str("user")
    THEN (IF HasText(turn, "text")
            THEN <<TextPart("User: $1", <<turn.v.text>>)>> ELSE <<>>)
         \o (IF HasText(turn, "imageUrl")
               THEN <<TextPart("User uploaded an image of a faucet.", <<>>)>> ELSE <<>>)
  ELSE IF turn.v.role = Str("assistant")
    THEN (IF HasText(turn, "assistantMessage")
            THEN <<TextPart("Assistant: $1", <<turn.v.assistantMessage>>)>> ELSE <<>>)
         \o (IF "matches" \in turn.keys /\ turn.v.matches.t = "arr" /\ turn.v.matches.v # <<>>
               THEN <<TextPart("Assistant found matches: $1",
                               <<JsonStringify(turn.v.matches)>>)>>
               ELSE <<>>)
  ELSE <<>>

RECURSIVE ExpectedHistory(_)
ExpectedHistory(turns) ==
  IF turns = <<>> THEN <<>>
  ELSE ExpectedTurn(Head(turns)) \o ExpectedHistory(Tail(turns))

\* The history field decodes to a sequence of turns.
IsTurnSequence(h) ==
  /\ HistoryTruthy(h) /\ h.text.valid /\ h.text.value.t = "arr"
  /\ \A i \in 1..Len(h.text.value.v) : h.text.value.v[i].t = "obj"

\* C9: for a history that is a sequence of turns, the payload carries
\* between the catalog context and the new turn exactly the text parts of
\* the turns, turn by turn in the original order; and for every history
\* the payload has no image part but the catalog's and the new image.
C9_HistoryTextOnly ==
  \A r \in Slots :
    req[r].calls > 0 =>
      LET q == req[r]
          p == q.payload
          n == Len(catalogContextCache.v)
          hasImage == q.image # Null
          last == IF hasImage THEN Len(p) - 1 ELSE Len(p)
      IN /\ ImageParts(p) = n \div 2 + (IF hasImage THEN 1 ELSE 0)
         /\ \A i \in (n + 2)..(last - 1) : p[i].kind = "text"
         /\ IsTurnSequence(q.history)
              => SubSeq(p, n + 2, last - 1) = ExpectedHistory(q.history.text.value.v)

\* A request whose history has a user turn with an image and an assistant
\* turn with matches is sent to the model.
C9_Witness ==
  \E r \in Slots :
    /\ req[r].pc = "invoking"
    /\ req[r].history = HistoryText(JsonText(Arr(<<UserBoth, AssistantBoth>>)))
    /\ req[r].image = Null
    /\ Len(req[r].payload) = 1 + Len(catalogContextCache.v) + 4 + 1

\* C10 as stated: a finished request made with the credential missing or
\* with a catalog for which loadContext yields an empty sequence got a 500
\* and never invoked the model.
C10_ConfigurationError500 ==
  \A r \in Slots :
    req[r].pc = "done" /\ ~req[r].malformed
      /\ (~Truthy(apiKey) \/ req[r].catalog = "empty")
      => req[r].response.status = 500 /\ req[r].calls = 0

\* C10 amended: the same for the missing credential, and for the empty
\* catalog when the request carries a message or an image; a request with
\* neither is rejected with 400 before the catalog is consulted.  In all
\* these cases the model is never invoked.
C10_ConfigurationErrorUnlessNoInput ==
  \A r \in Slots :
    req[r].pc = "done" /\ ~req[r].malformed
      /\ (~Truthy(apiKey) \/ req[r].catalog = "empty")
      => /\ req[r].calls = 0
         /\ req[r].response.status =
              IF Truthy(apiKey) /\ NoInput(req[r]) THEN 400 ELSE 500

\* A request with a message got the empty-catalog 500 on a directory that
\* holds no supported regular file.
C10_Witness ==
  \E r \in Slots :
    /\ req[r].pc = "done"
    /\ req[r].message = Str("hi")
    /\ req[r].catalog = "empty"
    /\ disk.dir /\ disk.entries["d.txt"] = "file"
    /\ req[r].response =
         ErrorResponse(500, "No catalog images found. Please add images to the catalog.")

(***************************************************************************)
(* Properties of the response normalizer (SpecNormalize).                  *)
(***************************************************************************)
\* A JSON value with a `matches` field that is a sequence.
HasMatchesSequence(v) == v.t = "obj" /\ "matches" \in v.keys /\ v.v.matches.t = "arr"

\* C3: every reply that parses as JSON after fence stripping but has no
\* `matches` field that is a sequence ends with the SchemaError response:
\* status 500, with the raw text, without a match list.
C3_SchemaError ==
  \A r \in Slots :
    req[r].pc = "done" /\ req[r].replied
      /\ ~TextParseThrows(StripFences(req[r].reply))
      /\ ~HasMatchesSequence(TextParse(StripFences(req[r].reply)))
      => req[r].response =
           RawErrorResponse("Invalid response structure from model",
                            StripFences(req[r].reply))

\* C4: every reply whose `matches` is a sequence, whatever its elements,
\* ends with a 200 response whose match list has the same length and, entry
\* by entry, the filenames the model returned.
C4_EnrichmentTotal ==
  \A r \in Slots :
    req[r].pc = "done" /\ req[r].replied
      /\ ~TextParseThrows(StripFences(req[r].reply))
      /\ HasMatchesSequence(TextParse(StripFences(req[r].reply)))
      => LET returned == TextParse(StripFences(req[r].reply)).v.matches.v
         IN /\ req[r].response.status = 200
            /\ Len(req[r].response.matches) = Len(returned)
            /\ \A i \in 1..Len(returned) :
                 req[r].response.matches[i].filename = Get(returned[i], "filename")

\* The JSON value a reply wraps, when the reply is a JSON text alone or in
\* a fence.
IsWrapped(text) == \E v \in ReplyValues : text \in Wrappings(<<Value(v)>>)
Wrapped(text) == CHOOSE v \in ReplyValues : text \in Wrappings(<<Value(v)>>)
MetadataUsed == IF loads.meta.called THEN loads.meta.value ELSE EmptyObj

Present(x) == x # Undefined /\ x # Null /\ x # Str("")
StoredMetadata ==
  IF disk.meta.exists /\ ~JsonParseThrows(disk.meta.text)
    THEN JsonParse(disk.meta.text) ELSE EmptyObj
CatalogValue(filename, field) ==
  IF filename.t = "str" /\ filename.v \in StoredMetadata.keys
    THEN Get(StoredMetadata.v[filename.v], field) ELSE Undefined
Preferred(own, catalog) ==
  IF Present(own) THEN own ELSE IF Present(catalog) THEN catalog ELSE Str("")

\* C13: each entry of a returned match list keeps the model's filename;
\* title, brand and color are the model's value when present and non-empty,
\* otherwise the catalog metadata's for that filename when present,
\* otherwise ""; confidence is the model's when it is a number and 0
\* otherwise; reasoning is the model's or "".  A match with a filename not
\* in the catalog and the confidence "high" yields confidence 0 and empty
\* title, brand, color and reasoning.
C13_EnrichedFields ==
  \A r \in Slots :
    req[r].pc = "done" /\ req[r].replied /\ req[r].response.status = 200
      => LET returned == TextParse(StripFences(req[r].reply)).v.matches.v
             sent == req[r].response.matches
         IN \A i \in 1..Len(returned) :
              LET own == returned[i]
                  filename == Get(own, "filename")
              IN /\ sent[i].filename = filename
                 /\ sent[i].title = Preferred(Get(own, "title"), CatalogValue(filename, "Title"))
                 /\ sent[i].brand = Preferred(Get(own, "brand"), CatalogValue(filename, "Brand"))
                 /\ sent[i].color =
                      Preferred(Get(own, "color"), CatalogValue(filename, "VarDim_Color"))
                 /\ sent[i].confidence =
                      IF Get(own, "confidence").t = "num" THEN Get(own, "confidence") ELSE Num(0)
                 /\ sent[i].reasoning = Preferred(Get(own, "reasoning"), Undefined)
                 /\ own = Obj([filename |-> Str("x.png"), confidence |-> Str("high")])
                      => sent[i] = [filename |-> Str("x.png"), title |-> Str(""),
                                    brand |-> Str(""), color |-> Str(""),
                                    confidence |-> Num(0), reasoning |-> Str("")]
C13_Witness ==
  \E r \in Slots :
    /\ req[r].pc = "done" /\ req[r].replied /\ req[r].response.status = 200
    /\ disk.meta = MetaFile(ValidMeta)
    /\ Len(req[r].response.matches) = 2
    /\ req[r].response.matches[1] =
         [filename |-> Str("a.png"), title |-> Str("Mine"), brand |-> Str("B"),
          color |-> Str("C"), confidence |-> Num(0), reasoning |-> Str("why")]
    /\ req[r].response.matches[2].filename = Str("x.png")
    /\ req[r].response.matches[2].title = Str("")

\* C14: one request invokes the model at most once.  The count of
\* invocations of a request goes from 0 to 1 and no further; once the
\* invocation has failed or its reply has been rejected or accepted, the
\* request only returns its response; and a failed invocation ends with
\* status 500 and the message of the error thrown.
C14_AtMostOneInvocation ==
  [][\A r \in Slots :
       /\ req'[r].calls <= 1
       /\ req'[r].calls > req[r].calls => req[r].calls = 0 /\ req[r].pc = "formData"
       /\ req[r].pc = "done" => req'[r] = req[r] \/ req'[r] = IdleRequest
       /\ req[r].pc = "invoking" /\ req'[r] # req[r]
            => /\ req'[r].pc = "done" /\ req'[r].calls = 1
               /\ req'[r].thrown.thrown /\ req'[r].thrown.error
                    => req'[r].response =
                         [status |-> 500, error |-> req'[r].thrown.message]]_vars
C14_Witness ==
  \E r \in Slots :
    /\ req[r].pc = "done" /\ req[r].calls = 1
    /\ req[r].thrown = ErrorObject("quota exceeded")
    /\ req[r].response = [status |-> 500, error |-> "quota exceeded"]

\* The history field does not decode to a sequence of turns: its text is
\* not JSON, or not a sequence, or a sequence with an element that is not
\* an object.
MalformedHistory(h) ==
  /\ HistoryTruthy(h)
  /\ \/ JsonParseThrows(h.text)
     \/ JsonParse(h.text).t # "arr"
     \/ \E i \in 1..Len(JsonParse(h.text).v) : JsonParse(h.text).v[i].t # "obj"

\* C17: a request whose history field does not decode to a sequence of
\* well-formed turns still reaches the model, and its payload is the
\* instruction, the catalog context and the new turn, with no part derived
\* from the history.
C17_MalformedHistoryDropped ==
  \A r \in Slots :
    MalformedHistory(req[r].history) =>
      /\ req[r].catalog = "nonempty" /\ ~MissingInput(req[r].message, req[r].image)
           => req[r].calls = 1
      /\ req[r].calls > 0
           => req[r].payload =
                <<SYSTEM_PROMPT>> \o catalogContextCache.v
                  \o NewTurnText(req[r].message, req[r].image)
                  \o NewTurnImage(req[r].image)

\* C18: whenever a request's matches are enriched, the metadata the
\* enrichment uses for a catalog entry's filename is the metadata embedded
\* in that entry's cached descriptor text.
C18_MetadataConsistent ==
  \A r \in Slots :
    req[r].pc = "done" /\ req[r].replied /\ loads.meta.called
      /\ catalogContextCache # Null
      => \A i \in 1..Len(catalogContextCache.v) :
           LET part == catalogContextCache.v[i]
           IN part.kind = "text"
                => part.args[2] = formatMetadata(Get(loads.meta.value, part.args[1].v))

(***************************************************************************)
(* Properties of concurrent requests (SpecConcurrent).                     *)
(***************************************************************************)
\* C15: requests are isolated.  At every moment of every interleaving the
\* payload sent for a request is made of the instruction, the cached
\* catalog and that request's own message, image and history; its response
\* is made of the model's reply to it and the catalog metadata; and a step
\* of one request changes no field of another: the two caches are the only
\* state a request leaves behind.
C15_RequestIsolation ==
  /\ [](\A r \in AllSlots :
          /\ req[r].calls > 0 =>
                /\ catalogContextCache # Null
                /\ req[r].payload =
                     <<SYSTEM_PROMPT>> \o catalogContextCache.v
                       \o HistoryParts(req[r].history)
                       \o NewTurnText(req[r].message, req[r].image)
                       \o NewTurnImage(req[r].image)
          /\ req[r].pc = "done" /\ req[r].replied =>
                req[r].response =
                  Normalize(req[r].reply, loadImageMetadata(imageMetadataCache, disk).value))
  /\ [][/\ \A r, s \in AllSlots : r # s /\ req'[r] # req[r] => req'[s] = req[s]
        /\ (\A r \in AllSlots : req'[r] = req[r] \/ req'[r] = IdleRequest)
             => catalogContextCache' = catalogContextCache
                 /\ imageMetadataCache' = imageMetadataCache
        /\ <<apiKey, disk>>' = <<apiKey, disk>>]_vars
C15_Witness ==
  /\ req["r1"].pc = "done" /\ req["r1"].replied /\ req["r1"].response.status = 200
  /\ req["r2"].pc = "invoking"
  /\ req["r1"].message = Str("hi") /\ req["r2"].message = Str("more")
  /\ req["r1"].payload # req["r2"].payload

(***************************************************************************)
(* Properties of the login gate (SpecGate).                                *)
(***************************************************************************)
\* C16: a client that presents only the cookie the server issued to it is
\* passed through on a protected path only after a login with both
\* configured secrets; before such a login every request to a protected
\* path is redirected to the login page; and a login with other
\* credentials, or with a secret not configured, sets no session cookie.
C16_GateClosedUntilLogin ==
  /\ gate.cookie # Undefined => gate.granted
  /\ gate.last.kind = "request" /\ gate.last.path \in ProtectedPaths
       => /\ gate.last.result = PassThrough => gate.granted
          /\ ~gate.granted => gate.last.result = Redirect(LoginPath)
  /\ gate.last.kind = "login" /\ ~CorrectLogin(gate.last.body)
       => gate.last.response.setCookie = Undefined
C16_Witness ==
  /\ gate.granted
  /\ gate.last.kind = "request"
  /\ gate.last.path = <<"/", "a", "p", "i", "/", "a", "n", "a", "l", "y", "z", "e">>
  /\ gate.last.result = PassThrough

(***************************************************************************)
(* Properties of the chat page (SpecChat).                                 *)
(***************************************************************************)
\* C19: an attached image stays attached until the user removes it,
\* replaces it by another upload or submits a turn that includes it; and
\* the answer to a request discards neither an image nor a message text
\* entered after that request was submitted.
C19_AttachmentKept ==
  [][LET answered == chat.inflight.pending /\ ~chat'.inflight.pending
         removed == chat' = [chat EXCEPT !.file = Null, !.uploadProgress = 0]
         replaced == chat'.file \in chat.intervals
     IN /\ chat.file # Null /\ chat'.file # chat.file
             => removed \/ replaced \/ (answered /\ chat.inflight.file = chat.file)
        /\ answered /\ chat.message # chat.inflight.message
             => chat'.message = chat.message]_vars

(***************************************************************************)
(* Properties of the image-serving endpoint (SpecImage).                   *)
(***************************************************************************)
\* The location a filename resolves to, as path segments, and whether it
\* lies inside the catalog directory: the directory itself or below it.
ResolvedSegments(filename) ==
  NormalizeSegments(Split(CatalogDir \o <<"/">> \o filename), <<>>)
InsideCatalog(segs) ==
  Len(segs) >= 3 /\ SubSeq(segs, 1, 3) = <<<<"w">>, <<"p">>, <<"c">>>>

\* C2: a filename that resolves outside the catalog directory is rejected
\* with 400 and no file is read; a file is read only from inside it.
C2_NoReadOutsideCatalog ==
  img.pc = "done" /\ img.filename # <<>> =>
    /\ ~InsideCatalog(ResolvedSegments(img.filename))
         => img.status = 400 /\ img.read = <<>>
    /\ img.read # <<>> => InsideCatalog(NormalizeSegments(Split(img.read), <<>>))

=============================================================================
